---- MODULE Spec2Model ----
(***************************************************************************)
(* Model of the card-synthesis pipeline of spaced_rep_cards_generator:     *)
(*   - QwenChatbot._split_context_into_batches   (Context Batcher)         *)
(*   - QwenChatbot.generate_spaced_rep_card_drafts (generator loop)        *)
(*   - QwenChatbot.generate_mochi_cards          (Card Synthesis Parser)   *)
(*   - UniversalTechBlogScraper._get_extractor / add_extractor (Resolver)  *)
(*                                                                         *)
(* Text is a sequence of one-character strings, so that str.split,         *)
(* str.startswith and str.strip are computed character by character the    *)
(* way Python computes them.                                               *)
(***************************************************************************)
EXTENDS Integers, Sequences, FiniteSets, TLC

VARIABLES
    pc,                   \* position of the running call
    err,                  \* exception that ended the call, "none" otherwise
    context,              \* generate_mochi_cards argument `context`
    max_tokens_of_model,  \* tokenizer.model_max_length
    chunks,               \* the chunk_tokens slices taken by the batcher loop
    context_batches,      \* result of _split_context_into_batches
    drafts,               \* all_spaced_rep_cards_output / spaced_rep_card_drafts
    draft_i,              \* index of the generator output being parsed
    card_num,             \* index of the segment being parsed in that output
    question,             \* local `question` of generate_mochi_cards
    answer,               \* local `answer` of generate_mochi_cards
    posted,               \* the card-creation requests issued, in order
    url,                  \* generate_mochi_cards argument `url`
    deck_id,              \* generate_mochi_cards argument `deck_id`
    extractors,           \* UniversalTechBlogScraper.extractors
    lookup_url,           \* argument of the last _get_extractor call
    resolved,             \* list index returned by _get_extractor, 0 = none yet
    data,                 \* the dict `data` built by GenericExtractor.extract
    page,                 \* what the libraries and the DOM yield for the page
    urls,                 \* the list handed to scrape_multiple
    results,              \* the list scrape_multiple builds
    scrape_i,             \* 1-based position of the loop of scrape_multiple
    outcomes,             \* per url: how its scrape ended, when it began, whether the loop slept
    files,                \* the files opened for writing, in order, with their text
    now,                  \* time.time() in whole seconds
    instructions,         \* the instructions argument of generate_mochi_cards
    gen_calls,            \* the calls of stream_generate, in order
    store_fault,          \* which request the card store fails, and how
    entry,                \* the script run: the pipeline or standalone gen_mochi_cards.py
    san_text,             \* a text handed to sanitize_text
    san_once,             \* sanitize_text(san_text)
    san_twice,            \* sanitize_text(sanitize_text(san_text))
    fn_title,             \* a title a filename is derived from
    fn_base,              \* the filename base _save_data derives from fn_title
    fn_slug,              \* _sanitize_filename(fn_title)
    rendered,             \* what _save_data wrote for each content block, in order
    scraped_content_filepath  \* main's path of the persisted text, or "unset"

vars == << pc, err, context, max_tokens_of_model, chunks, context_batches,
           drafts, draft_i, card_num, question, answer, posted, url, deck_id,
           extractors, lookup_url, resolved, data, page,
           urls, results, scrape_i, outcomes, files, now,
           instructions, gen_calls, store_fault, entry,
           san_text, san_once, san_twice, fn_title, fn_base, fn_slug,
           rendered, scraped_content_filepath >>

cardVars == << context, max_tokens_of_model, chunks, context_batches,
               drafts, draft_i, card_num, question, answer, posted, url, deck_id,
               instructions, gen_calls, store_fault, entry >>

resolverVars == << extractors, lookup_url, resolved >>

genVars == << data, page >>

scrapeVars == << urls, results, scrape_i, outcomes, files, now >>

sanVars == << san_text, san_once, san_twice >>

auxVars == << fn_title, fn_base, fn_slug, rendered, scraped_content_filepath >>

scraperVars == << genVars, scrapeVars, sanVars, auxVars >>

-----------------------------------------------------------------------------
(* Bounds of the model.                                                    *)

MaxSegs == 3          \* segments per generator output
MaxTextLen == 10      \* characters of a context text in BatcherSpec
MaxModelTokens == 8   \* largest model_max_length in BatcherSpec
MaxExtractors == 5    \* registry length at which add_extractor stops
MaxUrlParts == 2      \* parts of a locator in ResolverSpec

-----------------------------------------------------------------------------
(* Python string primitives.                                               *)

Min(a, b) == IF a < b THEN a ELSE b

NL == << "\n" >>

Whitespace == { " ", "\n", "\t" }

\* s[i:] with a 1-based first index
Drop(s, i) == SubSeq(s, i, Len(s))

\* str.startswith
StartsWith(s, pre) ==
    /\ Len(s) >= Len(pre)
    /\ SubSeq(s, 1, Len(pre)) = pre

\* str.find, 1-based, 0 when sep does not occur
Find(s, sep) ==
    LET hits == { p \in 1..(Len(s) - Len(sep) + 1) :
                     SubSeq(s, p, p + Len(sep) - 1) = sep }
    IN  IF hits = {} THEN 0
        ELSE CHOOSE p \in hits : \A r \in hits : p <= r

RECURSIVE Split(_, _)
\* str.split(sep) for a non-empty separator: left-to-right, non-overlapping
Split(s, sep) ==
    LET p == Find(s, sep)
    IN  IF p = 0 THEN << s >>
        ELSE << SubSeq(s, 1, p - 1) >> \o Split(Drop(s, p + Len(sep)), sep)

RECURSIVE LStrip(_)
LStrip(s) ==
    IF s /= << >> /\ Head(s) \in Whitespace THEN LStrip(Tail(s)) ELSE s

RECURSIVE RStrip(_)
RStrip(s) ==
    IF s /= << >> /\ s[Len(s)] \in Whitespace
    THEN RStrip(SubSeq(s, 1, Len(s) - 1)) ELSE s

\* str.strip()
Strip(s) == RStrip(LStrip(s))

RECURSIVE Flatten(_)
\* "".join(parts)
Flatten(parts) ==
    IF parts = << >> THEN << >> ELSE Head(parts) \o Flatten(Tail(parts))

RECURSIVE Join(_, _)
\* sep.join(parts)
Join(parts, sep) ==
    IF parts = << >> THEN << >>
    ELSE IF Len(parts) = 1 THEN parts[1]
    ELSE parts[1] \o sep \o Join(Tail(parts), sep)

-----------------------------------------------------------------------------
(* Python values held under a dict key: the key may be absent, hold None,  *)
(* a string or a list.                                                     *)

\* the null character "\x00"
NUL == "^@"

Absent == [ kind |-> "absent", val |-> << >> ]

PyNone == [ kind |-> "none", val |-> << >> ]

Str(s) == [ kind |-> "str", val |-> s ]

List(l) == [ kind |-> "list", val |-> l ]

\* truth value of data.get(key): a missing key, None, "" and [] are false
Truthy(v) == v.kind \in { "str", "list" } /\ v.val /= << >>

\* the idle state of the scraper side, for the specifications of the card side
GenericIdle ==
    /\ data = << >>
    /\ page = << >>

ScrapeIdle ==
    /\ urls = << >>
    /\ results = << >>
    /\ scrape_i = 1
    /\ outcomes = << >>
    /\ files = << >>
    /\ now = 0

SanIdle ==
    /\ san_text = << >>
    /\ san_once = << >>
    /\ san_twice = << >>

AuxIdle ==
    /\ fn_title = << >>
    /\ fn_base = << >>
    /\ fn_slug = << >>
    /\ rendered = << >>
    /\ scraped_content_filepath = "unset"

ScraperIdle == GenericIdle /\ ScrapeIdle /\ SanIdle /\ AuxIdle

-----------------------------------------------------------------------------
(* Constants of gen_mochi_cards.py.                                        *)

CARD_DELIMITER == << "-", "-", "-" >>

FrontPrefix == << "F", "r", "o", "n", "t", ":", " " >>

BackPrefix == << "B", "a", "c", "k", ":", " " >>

SourceUrl == << "u" >>

TECHNICAL_READINGS_DECKS == << "d" >>

OtherUrl == << "v" >>

OtherDeck == << "e" >>

\* the (url, deck_id) pairs generate_mochi_cards is called with
CallArgs == { << SourceUrl, TECHNICAL_READINGS_DECKS >>, << OtherUrl, OtherDeck >> }

\* the text of gen_guidelines_on_card_gen, two tokens long
Instructions == << "i", ":" >>

-----------------------------------------------------------------------------
(* The tokenizer (self.tokenizer): a byte-pair style vocabulary in which a *)
(* space merges with the non-blank character after it and every other     *)
(* character is a token of its own.  decode concatenates the token texts,  *)
(* so decode(encode(s)) = s.                                               *)

RECURSIVE Encode(_)
Encode(s) ==
    IF s = << >> THEN << >>
    ELSE IF Len(s) >= 2 /\ s[1] = " " /\ s[2] \notin Whitespace
         THEN << SubSeq(s, 1, 2) >> \o Encode(Drop(s, 3))
         ELSE << SubSeq(s, 1, 1) >> \o Encode(Tail(s))

Decode(tokens) == Flatten(tokens)

\* _count_num_tokens
CountNumTokens(text) == Len(Encode(text))

-----------------------------------------------------------------------------
(* _split_context_into_batches                                             *)

\* mutant: the quartering of the context size is left out
NumTokensInBatchWhole(max) == max

\* int(max_tokens_of_model / 4)
NumTokensInBatch(max) == max \div 4

RECURSIVE ChunkTokensOverlap(_, _, _)
\* mutant: the slice is tokens[i:i+n+1], one token too long
ChunkTokensOverlap(tokens, i, n) ==
    IF i >= Len(tokens) THEN << >>
    ELSE << SubSeq(tokens, i + 1, Min(i + n + 1, Len(tokens))) >>
         \o ChunkTokensOverlap(tokens, i + n, n)

RECURSIVE ChunkTokensDropTail(_, _, _)
\* mutant: the loop stops at the last full chunk and loses the shorter tail
ChunkTokensDropTail(tokens, i, n) ==
    IF i + n > Len(tokens) THEN << >>
    ELSE << SubSeq(tokens, i + 1, i + n) >>
         \o ChunkTokensDropTail(tokens, i + n, n)

RECURSIVE ChunkTokens(_, _, _)
\* the slices tokens[i:i+n] for i in range(i, len(tokens), n); i is 0-based
ChunkTokens(tokens, i, n) ==
    IF i >= Len(tokens) THEN << >>
    ELSE << SubSeq(tokens, i + 1, Min(i + n, Len(tokens))) >>
         \o ChunkTokens(tokens, i + n, n)

\* batches.append(self.tokenizer.decode(chunk_tokens).strip())
ChunkText(chunk_tokens) == Strip(Decode(chunk_tokens))

\* return [context]
SingleBatch(text) == << text >>

SplitContextIntoBatches ==
    /\ pc = "split"
    /\ LET num_tokens_in_context == CountNumTokens(context)
           tokens == Encode(context)
           num_tokens_in_batch == NumTokensInBatch(max_tokens_of_model)
       IN  IF num_tokens_in_context <= max_tokens_of_model
           THEN /\ context_batches' = SingleBatch(context)
                /\ chunks' = << >>
                /\ pc' = "generate"
                /\ err' = err
           ELSE IF num_tokens_in_batch = 0
           THEN \* range() arg 3 must not be zero
                /\ pc' = "raised"
                /\ err' = "ValueError"
                /\ UNCHANGED << chunks, context_batches >>
           ELSE LET cs == ChunkTokens(tokens, 0, num_tokens_in_batch)
                IN  /\ chunks' = cs
                    /\ context_batches' =
                          [ k \in 1..Len(cs) |-> ChunkText(cs[k]) ]
                    /\ pc' = "generate"
                    /\ err' = err
    /\ UNCHANGED << context, max_tokens_of_model, drafts, draft_i, card_num,
                    question, answer, posted, url, deck_id, instructions,
                    gen_calls, store_fault, entry >>
    /\ UNCHANGED resolverVars
    /\ UNCHANGED scraperVars

-----------------------------------------------------------------------------
(* The generator outputs the model draws from.  A segment is the text      *)
(* between two delimiters; an output is 1..MaxSegs segments joined by the  *)
(* delimiter.                                                              *)

SegCardAB ==
    FrontPrefix \o << "a" >> \o NL \o BackPrefix \o << "b" >>

SegCardCD ==
    NL \o << "#" >> \o NL \o FrontPrefix \o << "c" >> \o NL
       \o BackPrefix \o << "d" >> \o NL

SegOnlyFront == FrontPrefix \o << "e" >>

SegOnlyBack == BackPrefix \o << "f" >>

SegEmpty == << >>

SegNested ==
    FrontPrefix \o << "g" >> \o FrontPrefix \o << "h" >> \o NL
       \o BackPrefix \o << "i" >> \o BackPrefix \o << "j" >>

Segments ==
    { SegCardAB, SegCardCD, SegOnlyFront, SegOnlyBack, SegEmpty, SegNested }

Outputs ==
    { Join(segs, CARD_DELIMITER) :
        segs \in UNION { [1..n -> Segments] : n \in 1..MaxSegs } }

\* the outputs drawn when the context needs several batches
ShortOutputs ==
    { SegCardAB, SegOnlyBack, SegCardCD \o CARD_DELIMITER }

GeneratorOutputs(num_batches) ==
    IF num_batches = 1 THEN Outputs ELSE ShortOutputs

-----------------------------------------------------------------------------
(* generate_spaced_rep_card_drafts: one generator call per context batch.  *)

\* as MessageContent, without the instructions
MessageContentBatchOnly(instr, context_batch) == context_batch

\* "content": instructions + context_batch
MessageContent(instr, context_batch) == instr \o context_batch

\* tokenizer.apply_chat_template(messages, add_generation_prompt=True): the
\* user turn between the markers of the template, then the assistant marker
ApplyChatTemplate(content) ==
    << "<|im_start|>user" >> \o content \o << "<|im_end|>", "<|im_start|>assistant" >>

\* one iteration of the loop of generate_spaced_rep_card_drafts
Generate ==
    /\ pc = "generate"
    /\ Len(drafts) < Len(context_batches)
    /\ \E spaced_rep_cards_output \in GeneratorOutputs(Len(context_batches)) :
          LET context_batch == context_batches[Len(drafts) + 1]
              content == MessageContent(instructions, context_batch)
          IN  /\ gen_calls' = Append(gen_calls,
                     [ content |-> content,
                       prompt |-> ApplyChatTemplate(content),
                       output |-> spaced_rep_cards_output ])
              /\ drafts' = Append(drafts, spaced_rep_cards_output)
    /\ pc' = IF Len(drafts') = Len(context_batches) THEN "parse" ELSE "generate"
    /\ UNCHANGED << err, context, max_tokens_of_model, chunks, context_batches,
                    draft_i, card_num, question, answer, posted, url, deck_id,
                    instructions, store_fault, entry >>
    /\ UNCHANGED resolverVars
    /\ UNCHANGED scraperVars

-----------------------------------------------------------------------------
(* generate_mochi_cards: the parser loop.                                  *)

Unbound == [ bound |-> FALSE, val |-> << >> ]

Bound(v) == [ bound |-> TRUE, val |-> v ]

\* line.split(prefix)[1]
FieldOf(line, prefix) == Split(line, prefix)[2]

\* mutant: a field that already has a value is not assigned again
ScanLineKeepFirst(line, qa) ==
    IF StartsWith(line, FrontPrefix)
    THEN (IF qa.question.bound THEN qa
          ELSE [ qa EXCEPT !.question = Bound(FieldOf(line, FrontPrefix)) ])
    ELSE IF StartsWith(line, BackPrefix)
    THEN (IF qa.answer.bound THEN qa
          ELSE [ qa EXCEPT !.answer = Bound(FieldOf(line, BackPrefix)) ])
    ELSE qa

\* one pass of `for line in lines` over the locals (question, answer)
ScanLine(line, qa) ==
    IF StartsWith(line, FrontPrefix)
    THEN [ qa EXCEPT !.question = Bound(FieldOf(line, FrontPrefix)) ]
    ELSE IF StartsWith(line, BackPrefix)
    THEN [ qa EXCEPT !.answer = Bound(FieldOf(line, BackPrefix)) ]
    ELSE qa

RECURSIVE ScanLines(_, _)
ScanLines(lines, qa) ==
    IF lines = << >> THEN qa
    ELSE ScanLines(Tail(lines), ScanLine(Head(lines), qa))

\* f"{question}\n---\n{answer}" of the standalone gen_mochi_cards.py
CardContentStandalone(q, a) == q \o NL \o CARD_DELIMITER \o NL \o a

\* f"{question}\n---\n{answer}\n---\n{url}\n"
CardContent(q, a, u) ==
    q \o NL \o CARD_DELIMITER \o NL \o a \o NL \o CARD_DELIMITER \o NL \o u \o NL

\* the segments of one generator output
CardsOf(spaced_rep_card_output) == Split(spaced_rep_card_output, CARD_DELIMITER)

\* the lines of one segment
LinesOf(card) == Split(card, NL)

NoFault == [ kind |-> "none", at |-> 0 ]

\* what requests.post does for the n-th request: it returns a response
\* ("ok", or "rejected" for a 4xx or 5xx status, which nothing inspects) or raises
PostResponse(fault, n) ==
    IF fault.kind = "reject" /\ fault.at = n THEN "rejected"
    ELSE IF fault.kind = "raise" /\ fault.at = n THEN "raised"
    ELSE "ok"

\* one iteration of the loop over the segments of generate_mochi_cards
ParseCard ==
    /\ pc = "parse"
    /\ LET cards == CardsOf(drafts[draft_i])
           lines == LinesOf(cards[card_num])
           qa == ScanLines(lines, [ question |-> question, answer |-> answer ])
           last_card == card_num = Len(cards)
           last_draft == draft_i = Len(drafts)
       IN  /\ question' = qa.question
           /\ answer' = qa.answer
           /\ IF ~qa.question.bound \/ ~qa.answer.bound
              THEN \* reading an unassigned local
                   /\ pc' = "raised"
                   /\ err' = "UnboundLocalError"
                   /\ UNCHANGED << posted, draft_i, card_num >>
              ELSE /\ posted' = Append(posted,
                        [ content |-> IF entry = "standalone"
                                      THEN CardContentStandalone(qa.question.val,
                                                                 qa.answer.val)
                                      ELSE CardContent(qa.question.val,
                                                       qa.answer.val, url),
                          deck_id |-> deck_id,
                          review_reverse |-> FALSE,
                          archived |-> FALSE,
                          question |-> qa.question.val,
                          answer |-> qa.answer.val,
                          draft |-> draft_i,
                          card_num |-> card_num,
                          response |-> PostResponse(store_fault, Len(posted) + 1) ])
                   /\ IF PostResponse(store_fault, Len(posted) + 1) = "raised"
                      THEN \* requests.post raises and nothing catches it
                           /\ pc' = "raised"
                           /\ err' = "ConnectionError"
                           /\ UNCHANGED << draft_i, card_num >>
                      ELSE
                      /\ err' = err
                      /\ IF ~last_card
                         THEN /\ card_num' = card_num + 1
                              /\ UNCHANGED << draft_i, pc >>
                         ELSE IF ~last_draft
                         THEN /\ draft_i' = draft_i + 1
                              /\ card_num' = 1
                              /\ pc' = pc
                         ELSE /\ pc' = "done"
                              /\ UNCHANGED << draft_i, card_num >>
    /\ UNCHANGED << context, max_tokens_of_model, chunks, context_batches,
                    drafts, url, deck_id, instructions, gen_calls, store_fault,
                    entry >>
    /\ UNCHANGED resolverVars
    /\ UNCHANGED scraperVars

-----------------------------------------------------------------------------
(* Spec: one call of generate_mochi_cards(url, instructions, context,      *)
(* deck_id) on a model whose context window holds 4 tokens.                *)

\* "a" is one token; "a b c d e." is six: a, " b", " c", " d", " e", "."
PipelineContexts ==
    { << "a" >>,
      << "a", " ", "b", " ", "c", " ", "d", " ", "e", "." >> }

PipelineMaxTokens == 4

\* the idle state of the card side, for the specifications of the scraper side
CardIdle ==
    /\ context = << >>
    /\ max_tokens_of_model = PipelineMaxTokens
    /\ chunks = << >>
    /\ context_batches = << >>
    /\ drafts = << >>
    /\ draft_i = 1
    /\ card_num = 1
    /\ question = Unbound
    /\ answer = Unbound
    /\ posted = << >>
    /\ url = SourceUrl
    /\ deck_id = TECHNICAL_READINGS_DECKS
    /\ instructions = Instructions
    /\ gen_calls = << >>
    /\ store_fault = NoFault
    /\ entry = "pipeline"

ResolverIdle ==
    /\ extractors = << >>
    /\ lookup_url = << >>
    /\ resolved = 0

Init ==
    /\ pc = "split"
    /\ err = "none"
    /\ context \in PipelineContexts
    /\ max_tokens_of_model = PipelineMaxTokens
    /\ chunks = << >>
    /\ context_batches = << >>
    /\ drafts = << >>
    /\ draft_i = 1
    /\ card_num = 1
    /\ question = Unbound
    /\ answer = Unbound
    /\ posted = << >>
    /\ \E args \in CallArgs : url = args[1] /\ deck_id = args[2]
    /\ instructions = Instructions
    /\ gen_calls = << >>
    /\ store_fault = NoFault
    /\ entry = "pipeline"
    /\ ResolverIdle
    /\ ScraperIdle

Next ==
    \/ SplitContextIntoBatches
    \/ Generate
    \/ ParseCard

Spec == Init /\ [][Next]_vars

-----------------------------------------------------------------------------
(* StandaloneSpec: the script src/gen_mochi_cards.py, which sends the      *)
(* whole input to the model once and parses the one response.              *)

AI_ML_DECK == << "o" >>

\* generate_response(user_input) of the standalone script
GenerateResponse ==
    /\ pc = "respond"
    /\ \E total_response \in Outputs :
          /\ gen_calls' = Append(gen_calls,
                 [ content |-> context,
                   prompt |-> ApplyChatTemplate(context),
                   output |-> total_response ])
          /\ drafts' = << total_response >>
    /\ pc' = "parse"
    /\ UNCHANGED << err, context, max_tokens_of_model, chunks, context_batches,
                    draft_i, card_num, question, answer, posted, url, deck_id,
                    instructions, store_fault, entry >>
    /\ UNCHANGED resolverVars
    /\ UNCHANGED scraperVars

StandaloneInit ==
    /\ pc = "respond"
    /\ err = "none"
    /\ context \in { Instructions \o c : c \in PipelineContexts }
    /\ max_tokens_of_model = PipelineMaxTokens
    /\ chunks = << >>
    /\ context_batches = << >>
    /\ drafts = << >>
    /\ draft_i = 1
    /\ card_num = 1
    /\ question = Unbound
    /\ answer = Unbound
    /\ posted = << >>
    /\ url = SourceUrl
    /\ deck_id = AI_ML_DECK
    /\ instructions = Instructions
    /\ gen_calls = << >>
    /\ store_fault = NoFault
    /\ entry = "standalone"
    /\ ResolverIdle
    /\ ScraperIdle

StandaloneNext ==
    \/ GenerateResponse
    \/ ParseCard

StandaloneSpec == StandaloneInit /\ [][StandaloneNext]_vars

-----------------------------------------------------------------------------
(* StoreSpec: the same call against a card store that fails one request.   *)

MaxFaultAt == 2       \* the latest request the store fails

StoreFaults ==
    { [ kind |-> k, at |-> n ] : k \in { "reject", "raise" }, n \in 1..MaxFaultAt }

StoreInit ==
    /\ pc = "split"
    /\ err = "none"
    /\ context \in PipelineContexts
    /\ max_tokens_of_model = PipelineMaxTokens
    /\ chunks = << >>
    /\ context_batches = << >>
    /\ drafts = << >>
    /\ draft_i = 1
    /\ card_num = 1
    /\ question = Unbound
    /\ answer = Unbound
    /\ posted = << >>
    /\ url = SourceUrl
    /\ deck_id = TECHNICAL_READINGS_DECKS
    /\ instructions = Instructions
    /\ gen_calls = << >>
    /\ store_fault \in StoreFaults
    /\ entry = "pipeline"
    /\ ResolverIdle
    /\ ScraperIdle

StoreSpec == StoreInit /\ [][Next]_vars

-----------------------------------------------------------------------------
(* BatcherSpec: _split_context_into_batches on every text of at most       *)
(* MaxTextLen characters and every model_max_length in 1..MaxModelTokens.  *)

TextChars == { " ", "a" }

Texts == UNION { [1..n -> TextChars] : n \in 0..MaxTextLen }

BatcherInit ==
    /\ pc = "split"
    /\ err = "none"
    /\ context \in Texts
    /\ max_tokens_of_model \in 1..MaxModelTokens
    /\ chunks = << >>
    /\ context_batches = << >>
    /\ drafts = << >>
    /\ draft_i = 1
    /\ card_num = 1
    /\ question = Unbound
    /\ answer = Unbound
    /\ posted = << >>
    /\ url = SourceUrl
    /\ deck_id = TECHNICAL_READINGS_DECKS
    /\ instructions = Instructions
    /\ gen_calls = << >>
    /\ store_fault = NoFault
    /\ entry = "pipeline"
    /\ ResolverIdle
    /\ ScraperIdle

BatcherNext == SplitContextIntoBatches

BatcherSpec == BatcherInit /\ [][BatcherNext]_vars

-----------------------------------------------------------------------------
(* The extractor registry of UniversalTechBlogScraper.                     *)

LowerChar(c) ==
    CASE c = "B" -> "b" [] c = "C" -> "c" [] c = "E" -> "e" [] c = "G" -> "g"
      [] c = "L" -> "l" [] c = "M" -> "m" [] c = "O" -> "o" [] c = "R" -> "r"
      [] c = "U" -> "u" [] OTHER -> c

\* str.lower()
Lower(s) == [ i \in 1..Len(s) |-> LowerChar(s[i]) ]

\* needle in s
Contains(s, needle) == Find(s, needle) /= 0

UberNeedle == << "u", "b", "e", "r", ".", "c", "o", "m", "/", "b", "l", "o", "g" >>

JaneStreetNeedle == << "b", "l", "o", "g", ".", "j", "a", "n", "e", "s", "t", "r", "e", "e", "t", ".", "c", "o", "m" >>

CustomNeedle == << "e", "x", "a", "m", "p", "l", "e", ".", "c", "o", "m" >>

\* can_handle of each extractor class; CustomExtractor stands for a
\* BaseExtractor subclass registered through add_extractor
CanHandle(extractor, u) ==
    CASE extractor = "UberBlogExtractor" -> Contains(Lower(u), UberNeedle)
      [] extractor = "JaneStreetBlogExtractor" -> Contains(Lower(u), JaneStreetNeedle)
      [] extractor = "GenericExtractor" -> TRUE
      [] extractor = "CustomExtractor" -> Contains(Lower(u), CustomNeedle)
      [] OTHER -> FALSE

\* self.extractors as built by __init__
DefaultExtractors ==
    << "UberBlogExtractor", "JaneStreetBlogExtractor", "GenericExtractor" >>

RECURSIVE LastMatch(_, _, _)
\* mutant: the registry is scanned from its end
LastMatch(exts, u, i) ==
    LET j == Len(exts) + 1 - i
    IN  IF i > Len(exts) THEN Len(exts)
        ELSE IF CanHandle(exts[j], u) THEN j
        ELSE LastMatch(exts, u, i + 1)

RECURSIVE FirstMatch(_, _, _)
\* for extractor in self.extractors: if extractor.can_handle(url): return it;
\* the fall-through returns self.extractors[-1]
FirstMatch(exts, u, i) ==
    IF i > Len(exts) THEN Len(exts)
    ELSE IF CanHandle(exts[i], u) THEN i
    ELSE FirstMatch(exts, u, i + 1)

\* _get_extractor, as the list index of the extractor it returns
GetExtractorIndex(exts, u) == FirstMatch(exts, u, 1)

\* list.insert(index, x): a negative index counts from the end, and the
\* position is clamped to 0..len
ListInsert(list, index, x) ==
    LET n == Len(list)
        at == IF index < 0
              THEN (IF index + n < 0 THEN 0 ELSE index + n)
              ELSE Min(index, n)
    IN  SubSeq(list, 1, at) \o << x >> \o SubSeq(list, at + 1, n)

\* add_extractor: both branches are the insert at `priority`
InsertExtractor(exts, extractor, priority) ==
    IF priority = -1
    THEN ListInsert(exts, -1, extractor)
    ELSE ListInsert(exts, priority, extractor)

UrlParts ==
    { << "u", "b", "e", "r", ".", "c", "o", "m", "/", "b", "l", "o", "g" >>,
      << "U", "b", "e", "r", ".", "c", "o", "m", "/", "B", "l", "o", "g" >>,
      << "b", "l", "o", "g", ".", "j", "a", "n", "e", "s", "t", "r", "e", "e", "t", ".", "c", "o", "m" >>,
      << "e", "x", "a", "m", "p", "l", "e", ".", "c", "o", "m" >>,
      << "/", "x" >> }

Urls ==
    { Flatten(parts) :
        parts \in UNION { [1..n -> UrlParts] : n \in 1..MaxUrlParts } }

AddableExtractors == { "CustomExtractor", "GenericExtractor" }

\* the result of an earlier _get_extractor call says nothing about the
\* changed list, so it is cleared
AddExtractor ==
    /\ pc = "registry"
    /\ Len(extractors) < MaxExtractors
    /\ \E extractor \in AddableExtractors,
          priority \in (0 - MaxExtractors - 1)..(MaxExtractors + 1) :
          extractors' = InsertExtractor(extractors, extractor, priority)
    /\ lookup_url' = << >>
    /\ resolved' = 0
    /\ UNCHANGED << pc, err >>
    /\ UNCHANGED cardVars
    /\ UNCHANGED scraperVars

\* _get_extractor(url); lookup_url and resolved record the call and its
\* result.  A further call on the same list would only overwrite the record,
\* so one call is taken per state of the list
GetExtractor ==
    /\ pc = "registry"
    /\ lookup_url = << >>
    /\ \E u \in Urls :
          /\ lookup_url' = u
          /\ resolved' = GetExtractorIndex(extractors, u)
    /\ UNCHANGED << pc, err, extractors >>
    /\ UNCHANGED cardVars
    /\ UNCHANGED scraperVars

ResolverInit ==
    /\ pc = "registry"
    /\ err = "none"
    /\ CardIdle
    /\ extractors = DefaultExtractors
    /\ lookup_url = << >>
    /\ resolved = 0
    /\ ScraperIdle

ResolverNext ==
    \/ AddExtractor
    \/ GetExtractor

ResolverSpec == ResolverInit /\ [][ResolverNext]_vars

-----------------------------------------------------------------------------
(* GenericExtractor.extract of generic_tech_blog_scraper.py: three tiers   *)
(* (trafilatura, newspaper3k, BeautifulSoup heuristics) fill one dict.     *)

\* len(text) > MinBlockTextLen keeps a block of the heuristic tier
MinBlockTextLen == 20

Rep(c, n) == [ i \in 1..n |-> c ]

\* urlparse(url).netloc: what lies between "://" and the next "/"
Netloc(u) ==
    LET i == Find(u, << ":", "/", "/" >>) IN
    IF i = 0 THEN << >>
    ELSE LET rest == Drop(u, i + 3)
             j == Find(rest, << "/" >>)
         IN  IF j = 0 THEN rest ELSE SubSeq(rest, 1, j - 1)

PageUrl == << "h", ":", "/", "/", "x", ".", "i", "o", "/", "p" >>

DataKeys ==
    { "url", "domain", "extractor", "content_raw", "title", "author", "date",
      "description", "authors", "publish_date", "images", "top_image",
      "content", "scrape_timestamp", "error" }

\* extractor.__class__.__name__, the value of the "extractor" key
ExtractorName(extractor) ==
    CASE extractor = "UberBlogExtractor" -> << "U", "b", "e", "r", "B", "l", "o", "g", "E", "x", "t", "r", "a", "c", "t", "o", "r" >>
      [] extractor = "JaneStreetBlogExtractor" -> << "J", "a", "n", "e", "S", "t", "r", "e", "e", "t", "B", "l", "o", "g", "E", "x", "t", "r", "a", "c", "t", "o", "r" >>
      [] extractor = "CustomExtractor" -> << "C", "u", "s", "t", "o", "m", "E", "x", "t", "r", "a", "c", "t", "o", "r" >>
      [] OTHER -> << "G", "e", "n", "e", "r", "i", "c", "E", "x", "t", "r", "a", "c", "t", "o", "r" >>

\* data = {"url": url, "domain": urlparse(url).netloc, "extractor": ...}
NewData(u) ==
    [ k \in DataKeys |->
        CASE k = "url" -> Str(u)
          [] k = "domain" -> Str(Netloc(u))
          [] k = "extractor" -> Str(ExtractorName("GenericExtractor"))
          [] OTHER -> Absent ]

\* tier 1: trafilatura.extract and trafilatura.extract_metadata
Trafilatura(d, pg) ==
    IF pg.HAS_TRAFILATURA /\ Truthy(pg.extracted)
    THEN LET d1 == [ d EXCEPT !.content_raw = pg.extracted ] IN
         IF pg.metadata.present
         THEN [ d1 EXCEPT !.title = pg.metadata.title,
                          !.author = pg.metadata.author,
                          !.date = pg.metadata.date,
                          !.description = pg.metadata.description ]
         ELSE d1
    ELSE d

\* tier 2: newspaper3k; an exception of download or parse leaves data alone
Newspaper(d, pg) ==
    IF ~pg.HAS_NEWSPAPER \/ pg.article.raises THEN d
    ELSE
    LET a  == pg.article
        d1 == IF ~Truthy(d.title) THEN [ d EXCEPT !.title = Str(a.title) ] ELSE d
        d2 == IF ~Truthy(d1.author)
              THEN [ d1 EXCEPT !.authors = List(a.authors) ] ELSE d1
        d3 == IF ~Truthy(d2.date)
              THEN [ d2 EXCEPT !.publish_date =
                        IF a.publish_date /= << >> THEN Str(a.publish_date)
                        ELSE PyNone ]
              ELSE d2
        d4 == IF a.text /= << >> /\ ~Truthy(d3.content_raw)
              THEN [ d3 EXCEPT !.content_raw = Str(a.text) ] ELSE d3
        d5 == IF a.images /= << >>
              THEN [ d4 EXCEPT !.images =
                        List([ i \in 1..Len(a.images) |->
                                 [ url |-> a.images[i], alt |-> Absent, caption |-> Absent ] ]) ]
              ELSE d4
    IN  IF a.top_image /= << >>
        THEN [ d5 EXCEPT !.top_image = Str(a.top_image) ] ELSE d5

\* soup.find("h1") or soup.find("meta", property="og:title") or
\* soup.find("title"), and the text taken from the tag found
TitleTagText(soup) ==
    IF soup.h1.kind = "str" THEN Str(Strip(soup.h1.val))
    ELSE IF soup.og_title.kind = "str" THEN soup.og_title
    ELSE IF soup.title.kind = "str" THEN Str(Strip(soup.title.val))
    ELSE PyNone

\* the blocks of the container whose stripped text is long enough
ContentBlocks(elems) ==
    LET stripped == [ i \in 1..Len(elems) |->
                        [ type |-> elems[i].type, text |-> Strip(elems[i].text) ] ]
    IN  SelectSeq(stripped, LAMBDA b : b.text /= << >> /\ Len(b.text) > MinBlockTextLen)

SkipWords ==
    { << "i", "c", "o", "n" >>, << "l", "o", "g", "o" >>,
      << "a", "v", "a", "t", "a", "r" >>, << "p", "i", "x", "e", "l" >> }

\* img.get("src") or img.get("data-src")
ImgUrl(img) == IF img.src /= << >> THEN img.src ELSE img.data_src

\* the images of the container that have a url free of the skip words
HeuristicImages(imgs) ==
    LET kept == SelectSeq(imgs, LAMBDA img :
                    /\ ImgUrl(img) /= << >>
                    /\ ~(\E skip \in SkipWords : Contains(Lower(ImgUrl(img)), skip)))
    IN  [ i \in 1..Len(kept) |->
            [ url |-> ImgUrl(kept[i]), alt |-> Str(kept[i].alt), caption |-> Absent ] ]

\* tier 3: the BeautifulSoup heuristics, run when no tier gave content_raw
Heuristic(d, pg) ==
    IF Truthy(d.content_raw) THEN d
    ELSE
    LET d1 == IF ~Truthy(d.title) /\ TitleTagText(pg.soup).kind = "str"
              THEN [ d EXCEPT !.title = TitleTagText(pg.soup) ] ELSE d
    IN  IF ~pg.soup.article.present THEN d1
        ELSE
        LET content_blocks == ContentBlocks(pg.soup.article.elems)
            images == HeuristicImages(pg.soup.article.imgs)
            d2 == IF content_blocks /= << >>
                  THEN [ d1 EXCEPT !.content = List(content_blocks) ] ELSE d1
        IN  IF images /= << >>
            THEN [ d2 EXCEPT !.images = List(images) ] ELSE d2

Tier1 ==
    /\ pc = "tier1"
    /\ data' = Trafilatura(data, page)
    /\ pc' = "tier2"
    /\ UNCHANGED << err, page >>
    /\ UNCHANGED cardVars
    /\ UNCHANGED resolverVars
    /\ UNCHANGED scrapeVars
    /\ UNCHANGED sanVars
    /\ UNCHANGED auxVars

Tier2 ==
    /\ pc = "tier2"
    /\ data' = Newspaper(data, page)
    /\ pc' = "tier3"
    /\ UNCHANGED << err, page >>
    /\ UNCHANGED cardVars
    /\ UNCHANGED resolverVars
    /\ UNCHANGED scrapeVars
    /\ UNCHANGED sanVars
    /\ UNCHANGED auxVars

Tier3 ==
    /\ pc = "tier3"
    /\ data' = Heuristic(data, page)
    /\ pc' = "extracted"
    /\ UNCHANGED << err, page >>
    /\ UNCHANGED cardVars
    /\ UNCHANGED resolverVars
    /\ UNCHANGED scrapeVars
    /\ UNCHANGED sanVars
    /\ UNCHANGED auxVars

\* what trafilatura can yield: library missing, nothing extracted, or a body
\* with no metadata, full metadata, or metadata whose fields are None
NoMetadata ==
    [ present |-> FALSE, title |-> PyNone, author |-> PyNone, date |-> PyNone,
      description |-> PyNone ]

Metadatas ==
    { NoMetadata,
      [ present |-> TRUE, title |-> Str(<< "T", "1" >>), author |-> Str(<< "A", "1" >>),
        date |-> Str(<< "D", "1" >>), description |-> Str(<< "S", "1" >>) ],
      [ present |-> TRUE, title |-> PyNone, author |-> PyNone, date |-> PyNone,
        description |-> PyNone ] }

TrafilaturaOutputs ==
    { [ HAS_TRAFILATURA |-> FALSE, extracted |-> PyNone, metadata |-> NoMetadata ],
      [ HAS_TRAFILATURA |-> TRUE, extracted |-> PyNone, metadata |-> NoMetadata ] }
    \cup { [ HAS_TRAFILATURA |-> TRUE, extracted |-> Str(<< "b", "1" >>), metadata |-> m ] :
             m \in Metadatas }

\* what newspaper3k can yield: library missing, an exception, or an article
EmptyArticle ==
    [ raises |-> FALSE, title |-> << >>, authors |-> << >>, publish_date |-> << >>,
      text |-> << >>, images |-> << >>, top_image |-> << >> ]

Articles ==
    { [ raises |-> FALSE, title |-> t, authors |-> ad[1], publish_date |-> ad[2],
        text |-> x, images |-> im[1], top_image |-> im[2] ] :
        t \in { << >>, << "T", "2" >> },
        ad \in { << << >>, << >> >>, << << << "A", "2" >> >>, << "D", "2" >> >> },
        x \in { << >>, << "b", "2" >> },
        im \in { << << >>, << >> >>,
                 << << << "n", ".", "p", "n", "g" >> >>, << "n", ".", "p", "n", "g" >> >> } }

NewspaperOutputs ==
    { [ HAS_NEWSPAPER |-> FALSE, article |-> EmptyArticle ],
      [ HAS_NEWSPAPER |-> TRUE, article |-> [ EmptyArticle EXCEPT !.raises = TRUE ] ] }
    \cup { [ HAS_NEWSPAPER |-> TRUE, article |-> a ] : a \in Articles }

\* what the parsed DOM can hold
NoContainer == [ present |-> FALSE, elems |-> << >>, imgs |-> << >> ]

Containers ==
    { NoContainer,
      [ present |-> TRUE,
        elems |-> << [ type |-> "p", text |-> Rep("x", MinBlockTextLen + 1) \o << " " >> ],
                     [ type |-> "p", text |-> Rep("y", MinBlockTextLen) ] >>,
        imgs |-> << >> ],
      [ present |-> TRUE,
        elems |-> << >>,
        imgs |-> << [ src |-> << "a", ".", "p", "n", "g" >>, data_src |-> << >>,
                      alt |-> << "c" >>, title |-> << "c", NUL >> ],
                    [ src |-> << >>, data_src |-> << "L", "o", "g", "o", ".", "p", "n", "g" >>,
                      alt |-> << >>, title |-> << >> ] >> ],
      [ present |-> TRUE,
        elems |-> << [ type |-> "h2", text |-> Rep("z", MinBlockTextLen + 1) ] >>,
        imgs |-> << [ src |-> << >>, data_src |-> << "b", ".", "p", "n", "g" >>,
                      alt |-> << >>, title |-> << >> ] >> ] }

\* the tags outside the container: h1, og:title, title, og:description, the
\* author tag and the time tag, each missing or holding a text
HeadTags ==
    { [ h1 |-> PyNone, og_title |-> PyNone, title |-> PyNone,
        og_description |-> PyNone, author_tag |-> PyNone, time_tag |-> PyNone ],
      [ h1 |-> Str(<< "H", NUL >>), og_title |-> Str(<< "O" >>), title |-> Str(<< "P" >>),
        og_description |-> Str(<< "S" >>), author_tag |-> Str(<< "A", NUL >>),
        time_tag |-> Str(<< "D" >>) ],
      [ h1 |-> PyNone, og_title |-> PyNone, title |-> Str(<< "P", " " >>),
        og_description |-> PyNone, author_tag |-> PyNone, time_tag |-> PyNone ] }

\* soup.find_all("article") of a document whose only container is c; each
\* <article> holds a div.post-header or not
ArticlesOf(c) ==
    IF c.present
    THEN << [ post_header |-> TRUE, elems |-> c.elems, imgs |-> c.imgs ] >>
    ELSE << >>

Soups ==
    { [ h1 |-> tt.h1, og_title |-> tt.og_title, title |-> tt.title,
        og_description |-> tt.og_description, author_tag |-> tt.author_tag,
        time_tag |-> tt.time_tag, article |-> c, all_articles |-> ArticlesOf(c) ] :
        tt \in HeadTags, c \in Containers }

MakePage(t, n, s) ==
    [ HAS_TRAFILATURA |-> t.HAS_TRAFILATURA, extracted |-> t.extracted,
      metadata |-> t.metadata, HAS_NEWSPAPER |-> n.HAS_NEWSPAPER,
      article |-> n.article, soup |-> s ]

Pages ==
    { MakePage(t, n, s) :
        t \in TrafilaturaOutputs, n \in NewspaperOutputs, s \in Soups }

GenericInit ==
    /\ pc = "tier1"
    /\ err = "none"
    /\ page \in Pages
    /\ data = NewData(PageUrl)
    /\ CardIdle
    /\ ResolverIdle
    /\ ScrapeIdle
    /\ SanIdle
    /\ AuxIdle

GenericNext ==
    \/ Tier1
    \/ Tier2
    \/ Tier3

GenericSpec == GenericInit /\ [][GenericNext]_vars

-----------------------------------------------------------------------------
(* sanitize_text and _save_data of UniversalTechBlogScraper.               *)

\* as SanitizeText, removing only the first null character
SanitizeTextFirstOnly(text) ==
    LET i == Find(text, << NUL >>) IN
    IF i = 0 THEN text ELSE SubSeq(text, 1, i - 1) \o Drop(text, i + 1)

\* text.replace("\x00", ""): the pieces between the null characters, joined
SanitizeText(text) == Join(Split(text, << NUL >>), << >>)

\* the backquote character of a code fence
Backtick == "BACKQUOTE"

\* the characters removed by re.sub(r'[<>:"/\\|?*]', "", title)
ReservedChars == { "<", ">", ":", "\"", "/", "\\", "|", "?", "*" }

\* [:MaxFilenameLen] of the filename base
MaxFilenameLen == 100

ReSubReserved(s) == SelectSeq(s, LAMBDA c : c \notin ReservedChars)

\* str.replace(" ", "_")
ReplaceSpaces(s) == [ i \in 1..Len(s) |-> IF s[i] = " " THEN "_" ELSE s[i] ]

Truncate(s, n) == SubSeq(s, 1, Min(Len(s), n))

DigitChar(n) ==
    CASE n = 0 -> "0" [] n = 1 -> "1" [] n = 2 -> "2" [] n = 3 -> "3"
      [] n = 4 -> "4" [] n = 5 -> "5" [] n = 6 -> "6" [] n = 7 -> "7"
      [] n = 8 -> "8" [] n = 9 -> "9"

RECURSIVE IntToStr(_)
\* str(n) of a natural number
IntToStr(n) ==
    IF n < 10 THEN << DigitChar(n) >>
    ELSE IntToStr(n \div 10) \o << DigitChar(n % 10) >>

\* the filename base: from the title when data.get("title") is true, else
\* from the domain and int(time.time())
FilenameBase(d, t) ==
    IF Truthy(d.title)
    THEN SanitizeText(Truncate(ReplaceSpaces(ReSubReserved(d.title.val)), MaxFilenameLen))
    ELSE Netloc(d.url.val) \o << "_" >> \o IntToStr(t)

OutputDir == << "s", "c", "r", "a", "p", "e", "d", "_", "c", "o", "n", "t", "e", "n", "t" >>

\* md_path = f"{self.output_dir}/{filename_base}.md"
MdPath(filename_base) == OutputDir \o << "/" >> \o filename_base \o << ".", "m", "d" >>

\* data.get(key, default)
Get(d, key, default) == IF d[key].kind = "absent" THEN default ELSE d[key]

\* sanitize_text(data.get("title", "Untitled")) fails on a title that is None
TitleRaises(d) == Get(d, "title", Str(<< "U", "n", "t", "i", "t", "l", "e", "d" >>)).kind /= "str"

HeadingTypes == { "h", "h1", "h2", "h3", "h4", "h5", "h6" }

\* int(block["type"][1]) if len(block["type"]) > 1 else 2
HeadingLevel(type) ==
    CASE type = "h1" -> 1 [] type = "h2" -> 2 [] type = "h3" -> 3
      [] type = "h4" -> 4 [] type = "h5" -> 5 [] type = "h6" -> 6
      [] OTHER -> 2

\* what _save_data writes for one content block
RenderBlock(block) ==
    IF block.type \in HeadingTypes
    THEN Rep("#", HeadingLevel(block.type)) \o << " " >> \o block.text \o << "\n", "\n" >>
    ELSE IF block.type = "p" THEN block.text \o << "\n", "\n" >>
    ELSE IF block.type = "blockquote"
    THEN << ">", " " >> \o block.text \o << "\n", "\n" >>
    ELSE IF block.type \in { "pre", "code" }
    THEN << Backtick, Backtick, Backtick, "\n" >> \o block.text \o << "\n", Backtick, Backtick, Backtick, "\n", "\n" >>
    ELSE block.text \o << "\n", "\n" >>

\* the header lines of the Markdown file
MdHeader(d) ==
    << "#", " " >> \o SanitizeText(Get(d, "title", Str(<< "U", "n", "t", "i", "t", "l", "e", "d" >>)).val) \o << "\n", "\n" >>
    \o (IF Truthy(d.author)
        THEN << "*", "*", "A", "u", "t", "h", "o", "r", ":", "*", "*", " " >> \o d.author.val \o << "\n", "\n" >> ELSE << >>)
    \o (IF Truthy(d.date)
        THEN << "*", "*", "D", "a", "t", "e", ":", "*", "*", " " >> \o d.date.val \o << "\n", "\n" >> ELSE << >>)
    \o << "*", "*", "S", "o", "u", "r", "c", "e", ":", "*", "*", " " >> \o d.url.val \o << "\n", "\n" >>
    \o << "*", "*", "E", "x", "t", "r", "a", "c", "t", "e", "d", " ", "b", "y", ":", "*", "*", " " >> \o Get(d, "extractor", Str(<< "U", "n", "k", "n", "o", "w", "n" >>)).val \o << "\n", "\n" >>
    \o << "-", "-", "-", "\n", "\n" >>

\* what the loop over data["content"] writes, block by block
RenderedBlocks(d) ==
    IF Truthy(d.content)
    THEN [ i \in 1..Len(d.content.val) |-> RenderBlock(d.content.val[i]) ]
    ELSE << >>

\* the content blocks, or else the raw body
MdContent(d) ==
    IF Truthy(d.content)
    THEN Flatten(RenderedBlocks(d))
    ELSE IF Truthy(d.content_raw) THEN d.content_raw.val
    ELSE << >>

\* one numbered entry of the image list; img.get("caption") may be missing
RenderImage(idx, img) ==
    IntToStr(idx) \o << ".", " " >> \o img.url \o << "\n" >>
    \o (IF Truthy(img.caption)
        THEN << " ", " ", " ", "C", "a", "p", "t", "i", "o", "n", ":", " " >> \o img.caption.val \o << "\n" >> ELSE << >>)
    \o << "\n" >>

MdImages(d) ==
    IF Truthy(d.images)
    THEN << "\n", "-", "-", "-", "\n", "\n", "#", "#", " ", "I", "m", "a", "g", "e", "s", "\n", "\n" >>
         \o Flatten([ i \in 1..Len(d.images.val) |-> RenderImage(i, d.images.val[i]) ])
    ELSE << >>

\* _save_data(data) at time t: the file it opens, what it writes, and whether
\* it raises after the file was opened
SaveData(d, t) ==
    [ path |-> MdPath(FilenameBase(d, t)),
      raises |-> TitleRaises(d),
      text |-> IF TitleRaises(d) THEN << >>
               ELSE MdHeader(d) \o MdContent(d) \o MdImages(d) ]

-----------------------------------------------------------------------------
(* The domain extractors, scrape and scrape_multiple.                      *)

\* a block of a domain extractor is skipped when len(text) < MinSnippetLen
MinSnippetLen == 10

UberTags == { "h1", "h2", "h3", "h4", "h5", "h6", "p", "li", "blockquote", "pre" }

JaneStreetTags == { "h2", "h3", "h4", "h5", "h6", "p", "li", "blockquote", "pre" }

\* as DomainBlocks, skipping also the texts of exactly MinSnippetLen characters
DomainBlocksAboveMin(elems, tags) ==
    LET stripped == [ i \in 1..Len(elems) |->
                        [ type |-> elems[i].type, text |-> Strip(elems[i].text) ] ]
    IN  SelectSeq(stripped, LAMBDA b : b.type \in tags /\ Len(b.text) > MinSnippetLen)

\* the elements of the container with one of the tags, stripped, short ones
\* skipped
DomainBlocks(elems, tags) ==
    LET stripped == [ i \in 1..Len(elems) |->
                        [ type |-> elems[i].type, text |-> Strip(elems[i].text) ] ]
    IN  SelectSeq(stripped, LAMBDA b :
            b.type \in tags /\ ~(b.text = << >> \/ Len(b.text) < MinSnippetLen))

\* the images of the container that have a url; with_caption adds
\* img.get("title", "") under "caption"
DomainImages(imgs, with_caption) ==
    LET kept == SelectSeq(imgs, LAMBDA img : ImgUrl(img) /= << >>)
    IN  [ i \in 1..Len(kept) |->
            [ url |-> ImgUrl(kept[i]), alt |-> Str(kept[i].alt),
              caption |-> IF with_caption THEN Str(kept[i].title) ELSE Absent ] ]

\* data = {"url": url, "domain": domain, "extractor": name}
DomainData(u, domain, name) ==
    [ k \in DataKeys |->
        CASE k = "url" -> Str(u)
          [] k = "domain" -> Str(domain)
          [] k = "extractor" -> Str(name)
          [] OTHER -> Absent ]

\* UberBlogExtractor.extract
UberExtract(u, soup) ==
    LET d0 == DomainData(u, << "u", "b", "e", "r", ".", "c", "o", "m" >>, ExtractorName("UberBlogExtractor"))
        d1 == IF soup.h1.kind = "str"
              THEN [ d0 EXCEPT !.title = Str(Strip(soup.h1.val)) ] ELSE d0
        d2 == IF soup.og_description.kind = "str"
              THEN [ d1 EXCEPT !.description = soup.og_description ] ELSE d1
    IN  IF soup.article.present
        THEN [ d2 EXCEPT !.content = List(DomainBlocks(soup.article.elems, UberTags)),
                         !.images = List(DomainImages(soup.article.imgs, TRUE)) ]
        ELSE d2

\* as SelectArticle, taking the first <article> whatever it holds
SelectFirstArticle(all_articles) ==
    IF all_articles = << >> THEN NoContainer
    ELSE [ present |-> TRUE, elems |-> all_articles[1].elems, imgs |-> all_articles[1].imgs ]

\* the first <article> holding a div.post-header, else the first <article>,
\* else None
SelectArticle(all_articles) ==
    LET marked == { i \in 1..Len(all_articles) : all_articles[i].post_header }
        pick == IF marked /= {}
                THEN CHOOSE i \in marked : \A j \in marked : i <= j
                ELSE 1
    IN  IF all_articles = << >> THEN NoContainer
        ELSE [ present |-> TRUE, elems |-> all_articles[pick].elems,
               imgs |-> all_articles[pick].imgs ]

\* JaneStreetBlogExtractor.extract
JaneStreetExtract(u, soup) ==
    LET d0 == DomainData(u, << "b", "l", "o", "g", ".", "j", "a", "n", "e", "s", "t", "r", "e", "e", "t", ".", "c", "o", "m" >>, ExtractorName("JaneStreetBlogExtractor"))
        d1 == IF soup.h1.kind = "str"
              THEN [ d0 EXCEPT !.title = Str(Strip(soup.h1.val)) ] ELSE d0
        d2 == IF soup.author_tag.kind = "str"
              THEN [ d1 EXCEPT !.author = Str(Strip(soup.author_tag.val)) ] ELSE d1
        d3 == IF soup.time_tag.kind = "str"
              THEN [ d2 EXCEPT !.date = soup.time_tag ] ELSE d2
        article == SelectArticle(soup.all_articles)
    IN  IF article.present
        THEN [ d3 EXCEPT !.content = List(DomainBlocks(article.elems, JaneStreetTags)),
                         !.images = List(DomainImages(article.imgs, FALSE)) ]
        ELSE d3

\* a BaseExtractor subclass registered through add_extractor: it reports the
\* h1 text as title
CustomExtract(u, soup) ==
    LET d0 == DomainData(u, Netloc(u), ExtractorName("CustomExtractor"))
    IN  IF soup.h1.kind = "str"
        THEN [ d0 EXCEPT !.title = Str(Strip(soup.h1.val)) ] ELSE d0

\* GenericExtractor.extract: the three tiers in order
GenericExtract(u, pg) == Heuristic(Newspaper(Trafilatura(NewData(u), pg), pg), pg)

\* extractor.extract(url, soup, html)
Extract(extractor, u, pg) ==
    CASE extractor = "UberBlogExtractor" -> UberExtract(u, pg.soup)
      [] extractor = "JaneStreetBlogExtractor" -> JaneStreetExtract(u, pg.soup)
      [] extractor = "CustomExtractor" -> CustomExtract(u, pg.soup)
      [] OTHER -> GenericExtract(u, pg)

\* as ErrorResult, keeping the identifier of the extractor
ErrorResultWithExtractor(u, e) ==
    [ k \in DataKeys |->
        CASE k = "url" -> Str(u)
          [] k = "error" -> Str(e)
          [] k = "extractor" -> Str(ExtractorName("GenericExtractor"))
          [] OTHER -> Absent ]

\* {"url": url, "error": str(e)}
ErrorResult(u, e) ==
    [ k \in DataKeys |->
        CASE k = "url" -> Str(u)
          [] k = "error" -> Str(e)
          [] OTHER -> Absent ]

\* str(e) of the exception raised at a step of scrape
ErrorText(what) ==
    CASE what = "fetch" -> << "H", "T", "T", "P", "E", "r", "r", "o", "r" >>
      [] what = "can_handle" -> << "C", "a", "n", "H", "a", "n", "d", "l", "e", "E", "r", "r", "o", "r" >>
      [] what = "extract" -> << "E", "x", "t", "r", "a", "c", "t", "E", "r", "r", "o", "r" >>
      [] OTHER -> << "A", "t", "t", "r", "i", "b", "u", "t", "e", "E", "r", "r", "o", "r" >>

\* the scan of _get_extractor calls can_handle of a CustomExtractor
ReachesCustom(exts, u) ==
    \E j \in 1..Len(exts) :
        /\ exts[j] = "CustomExtractor"
        /\ \A k \in 1..(j - 1) : ~CanHandle(exts[k], u)

\* scrape(url) at time t in a world env: whether an exception leaves scrape,
\* the dict returned, and the files opened for writing with what was written
\* and the dict they were written from
Scrape(exts, u, env, t) ==
    IF env.fetch_raises
    THEN [ raised |-> FALSE, what |-> "fetch", data |-> ErrorResult(u, ErrorText("fetch")),
           writes |-> << >> ]
    ELSE IF env.can_handle_raises /\ ReachesCustom(exts, u)
    THEN [ raised |-> TRUE, what |-> "can_handle", data |-> ErrorResult(u, ErrorText("can_handle")),
           writes |-> << >> ]
    ELSE IF env.extract_raises
    THEN [ raised |-> FALSE, what |-> "extract", data |-> ErrorResult(u, ErrorText("extract")),
           writes |-> << >> ]
    ELSE LET extractor == exts[GetExtractorIndex(exts, u)]
             d == [ Extract(extractor, u, env.page) EXCEPT
                      !.scrape_timestamp = Str(IntToStr(t)) ]
             sv == SaveData(d, t)
         IN  IF sv.raises
             THEN [ raised |-> FALSE, what |-> "save", data |-> ErrorResult(u, ErrorText("save")),
                    writes |-> << [ path |-> sv.path, text |-> sv.text, data |-> d ] >> ]
             ELSE [ raised |-> FALSE, what |-> "ok", data |-> d,
                    writes |-> << [ path |-> sv.path, text |-> sv.text, data |-> d ] >> ]

\* as AppendOnException, dropping the url whose scrape raised
SkipOnException(res, u, e) == res

\* the except branch of scrape_multiple
AppendOnException(res, u, e) == Append(res, ErrorResult(u, e))

\* seconds of time.sleep between two documents
SleepSeconds == 2

MaxUrls == 2          \* urls handed to scrape_multiple

NoNewspaper == [ HAS_NEWSPAPER |-> FALSE, article |-> EmptyArticle ]

NoTrafilatura ==
    [ HAS_TRAFILATURA |-> FALSE, extracted |-> PyNone, metadata |-> NoMetadata ]

\* the pages served in ScrapeSpec: a body with full metadata, a body whose
\* metadata fields are None, a page with nothing to extract, and a page with
\* head tags, blocks and images in its container
ScrapePages ==
    { MakePage(t, NoNewspaper, s) :
        t \in { x \in TrafilaturaOutputs : x.HAS_TRAFILATURA /\ x.metadata.present },
        s \in { x \in Soups : x.h1.kind = "none" /\ x.title.kind = "none"
                             /\ ~x.article.present } }
    \cup { MakePage(NoTrafilatura, NoNewspaper, s) :
        s \in { x \in Soups :
                  \/ x.h1.kind = "none" /\ x.title.kind = "none" /\ ~x.article.present
                  \/ x.h1.kind = "str" /\ x.article.present
                     /\ x.article.elems /= << >> /\ x.article.imgs /= << >> } }

ScrapeUrls ==
    { PageUrl,
      << "h", ":", "/", "/", "u", "b", "e", "r", ".", "c", "o", "m", "/", "b", "l", "o", "g", "/", "a" >>,
      << "h", ":", "/", "/", "b", "l", "o", "g", ".", "j", "a", "n", "e", "s", "t", "r", "e", "e", "t", ".", "c", "o", "m", "/", "a" >>,
      << "h", ":", "/", "/", "e", "x", "a", "m", "p", "l", "e", ".", "c", "o", "m", "/", "a" >> }

\* what a url can meet: the fetch fails; a can_handle of an added extractor
\* raises; extract raises; or a page is served and every step succeeds.  The
\* page is of no account in the first three
Worlds ==
    LET nothing == MakePage(NoTrafilatura, NoNewspaper, CHOOSE s \in Soups :
                     s.h1.kind = "none" /\ s.title.kind = "none" /\ ~s.article.present)
    IN  { [ fetch_raises |-> TRUE, can_handle_raises |-> FALSE, extract_raises |-> FALSE,
            page |-> nothing ],
          [ fetch_raises |-> FALSE, can_handle_raises |-> TRUE, extract_raises |-> FALSE,
            page |-> nothing ],
          [ fetch_raises |-> FALSE, can_handle_raises |-> FALSE, extract_raises |-> TRUE,
            page |-> nothing ] }
        \cup { [ fetch_raises |-> FALSE, can_handle_raises |-> FALSE, extract_raises |-> FALSE,
                 page |-> pg ] : pg \in ScrapePages }

\* one iteration of the loop of scrape_multiple
ScrapeNextUrl ==
    /\ pc = "scrape"
    /\ scrape_i <= Len(urls)
    /\ \E env \in Worlds, elapsed \in { 0, 1 } :
         LET u == urls[scrape_i]
             r == Scrape(extractors, u, env, now + elapsed)
         IN  /\ results' = IF r.raised
                           THEN AppendOnException(results, u, r.data.error.val)
                           ELSE Append(results, r.data)
             /\ outcomes' = Append(outcomes, [ what |-> r.what, at |-> now,
                                            slept |-> ~r.raised ])
             /\ files' = files \o r.writes
             /\ now' = now + elapsed + (IF r.raised THEN 0 ELSE SleepSeconds)
    /\ scrape_i' = scrape_i + 1
    /\ UNCHANGED << pc, err, urls >>
    /\ UNCHANGED cardVars
    /\ UNCHANGED resolverVars
    /\ UNCHANGED genVars
    /\ UNCHANGED sanVars
    /\ UNCHANGED auxVars

\* return results
ScrapeReturn ==
    /\ pc = "scrape"
    /\ scrape_i > Len(urls)
    /\ pc' = "returned"
    /\ UNCHANGED << err, urls, results, scrape_i, outcomes, files, now >>
    /\ UNCHANGED cardVars
    /\ UNCHANGED resolverVars
    /\ UNCHANGED genVars
    /\ UNCHANGED sanVars
    /\ UNCHANGED auxVars

ScrapeInit ==
    /\ pc = "scrape"
    /\ err = "none"
    /\ urls \in UNION { [1..n -> ScrapeUrls] : n \in 0..MaxUrls }
    /\ results = << >>
    /\ scrape_i = 1
    /\ outcomes = << >>
    /\ files = << >>
    /\ now = 0
    /\ CardIdle
    /\ extractors = InsertExtractor(DefaultExtractors, "CustomExtractor", 0 - 1)
    /\ lookup_url = << >>
    /\ resolved = 0
    /\ GenericIdle
    /\ SanIdle
    /\ AuxIdle

ScrapeNext ==
    \/ ScrapeNextUrl
    \/ ScrapeReturn

ScrapeSpec == ScrapeInit /\ [][ScrapeNext]_vars

-----------------------------------------------------------------------------
(* SanitizeSpec: sanitize_text applied once and twice to any short text.   *)

MaxSanLen == 4        \* characters of a text handed to sanitize_text

SanChars == { NUL, "a", " " }

SanTexts == UNION { [1..n -> SanChars] : n \in 0..MaxSanLen }

Sanitize ==
    /\ pc = "sanitize"
    /\ san_once' = SanitizeText(san_text)
    /\ pc' = "sanitized"
    /\ UNCHANGED << err, san_text, san_twice >>
    /\ UNCHANGED cardVars
    /\ UNCHANGED resolverVars
    /\ UNCHANGED genVars
    /\ UNCHANGED scrapeVars
    /\ UNCHANGED auxVars

SanitizeAgain ==
    /\ pc = "sanitized"
    /\ san_twice' = SanitizeText(san_once)
    /\ pc' = "resanitized"
    /\ UNCHANGED << err, san_text, san_once >>
    /\ UNCHANGED cardVars
    /\ UNCHANGED resolverVars
    /\ UNCHANGED genVars
    /\ UNCHANGED scrapeVars
    /\ UNCHANGED auxVars

SanitizeInit ==
    /\ pc = "sanitize"
    /\ err = "none"
    /\ san_text \in SanTexts
    /\ san_once = << >>
    /\ san_twice = << >>
    /\ CardIdle
    /\ ResolverIdle
    /\ GenericIdle
    /\ ScrapeIdle
    /\ AuxIdle

SanitizeNext ==
    \/ Sanitize
    \/ SanitizeAgain

SanitizeSpec == SanitizeInit /\ [][SanitizeNext]_vars

-----------------------------------------------------------------------------
(* FilenameSpec: the filename base of _save_data and _sanitize_filename of *)
(* the SemiAnalysis scraper, applied to any short title and to long ones.  *)

\* text[:MaxSlugLen] of _sanitize_filename
MaxSlugLen == 200

\* SemiAnalysisScraper._sanitize_filename
SanitizeFilename(text) == Truncate(ReplaceSpaces(ReSubReserved(text)), MaxSlugLen)

MaxTitleLen == 3      \* characters of a short title

TitleChars == { "a", " ", "\t", "/", NUL }

Titles ==
    UNION { [1..n -> TitleChars] : n \in 1..MaxTitleLen }
    \cup { Rep("t", MaxFilenameLen + 1), << " " >> \o Rep("t", MaxSlugLen + 1) }

\* the filename base of _save_data for a result with this title
DeriveFilenameBase ==
    /\ pc = "derive"
    /\ fn_base' = FilenameBase([ NewData(PageUrl) EXCEPT !.title = Str(fn_title) ], now)
    /\ pc' = "derived_base"
    /\ UNCHANGED << err, fn_title, fn_slug, rendered, scraped_content_filepath >>
    /\ UNCHANGED cardVars
    /\ UNCHANGED resolverVars
    /\ UNCHANGED genVars
    /\ UNCHANGED scrapeVars
    /\ UNCHANGED sanVars

DeriveSlug ==
    /\ pc = "derived_base"
    /\ fn_slug' = SanitizeFilename(fn_title)
    /\ pc' = "derived"
    /\ UNCHANGED << err, fn_title, fn_base, rendered, scraped_content_filepath >>
    /\ UNCHANGED cardVars
    /\ UNCHANGED resolverVars
    /\ UNCHANGED genVars
    /\ UNCHANGED scrapeVars
    /\ UNCHANGED sanVars

FilenameInit ==
    /\ pc = "derive"
    /\ err = "none"
    /\ fn_title \in Titles
    /\ fn_base = << >>
    /\ fn_slug = << >>
    /\ rendered = << >>
    /\ scraped_content_filepath = "unset"
    /\ CardIdle
    /\ ResolverIdle
    /\ GenericIdle
    /\ ScrapeIdle
    /\ SanIdle

FilenameNext ==
    \/ DeriveFilenameBase
    \/ DeriveSlug

FilenameSpec == FilenameInit /\ [][FilenameNext]_vars

-----------------------------------------------------------------------------
(* ExtractSpec: a domain extractor applied to a parsed document, and the   *)
(* result handed to _save_data.                                            *)

MaxElems == 3         \* elements of one container
MaxArticles == 3      \* <article> tags of one document

\* elements around the length threshold (their text carries blanks that
\* get_text(strip=True) removes), one of a tag no extractor collects, and an
\* h1, which only the Uber extractor collects
ElemPool ==
    { [ type |-> "p", text |-> << " " >> \o Rep("a", MinSnippetLen - 1) \o << " " >> ],
      [ type |-> "li", text |-> Rep("b", MinSnippetLen) \o << " " >> ],
      [ type |-> "h2", text |-> Rep("c", MinSnippetLen + 1) ],
      [ type |-> "div", text |-> Rep("d", MinSnippetLen + 2) ],
      [ type |-> "h1", text |-> << " " >> \o Rep("e", MinSnippetLen) ] }

ElemSeqs == UNION { [1..n -> ElemPool] : n \in 0..MaxElems }

\* <article> tags told apart by what they hold
ArticlePool ==
    { [ post_header |-> m,
        elems |-> << [ type |-> "p", text |-> Rep(c, MinSnippetLen) ] >>,
        imgs |-> << [ src |-> << c, ".", "p", "n", "g" >>, data_src |-> << >>,
                      alt |-> << >>, title |-> << >> ] >> ] :
        m \in BOOLEAN, c \in { "s", "m", "n" } }

ArticleSeqs == UNION { [1..n -> ArticlePool] : n \in 0..MaxArticles }

\* a document with these <article> tags and nothing else; soup.find("article")
\* is the first of them
ArticleSoup(all_articles) ==
    [ h1 |-> PyNone, og_title |-> PyNone, title |-> PyNone, og_description |-> PyNone,
      author_tag |-> PyNone, time_tag |-> PyNone,
      article |-> IF all_articles = << >> THEN NoContainer
                  ELSE [ present |-> TRUE, elems |-> all_articles[1].elems,
                         imgs |-> all_articles[1].imgs ],
      all_articles |-> all_articles ]

ExtractSoups ==
    { ArticleSoup(<< [ post_header |-> m, elems |-> es, imgs |-> << >> ] >>) :
        m \in BOOLEAN, es \in ElemSeqs }
    \cup { ArticleSoup(as) : as \in ArticleSeqs }

DomainUrls == { u \in ScrapeUrls : GetExtractorIndex(DefaultExtractors, u) < Len(DefaultExtractors) }

\* extractor.extract(url, soup, html) of the extractor that handles the url
ExtractDomain ==
    /\ pc = "extract"
    /\ resolved' = GetExtractorIndex(extractors, lookup_url)
    /\ data' = Extract(extractors[resolved'], lookup_url, page)
    /\ pc' = "extracted"
    /\ UNCHANGED << err, extractors, lookup_url, page >>
    /\ UNCHANGED cardVars
    /\ UNCHANGED scrapeVars
    /\ UNCHANGED sanVars
    /\ UNCHANGED auxVars

\* self._save_data(data)
SaveExtracted ==
    /\ pc = "extracted"
    /\ LET sv == SaveData(data, now)
       IN  /\ files' = Append(files, [ path |-> sv.path, text |-> sv.text, data |-> data ])
           /\ rendered' = IF sv.raises THEN << >> ELSE RenderedBlocks(data)
    /\ pc' = "saved"
    /\ UNCHANGED << err, data, page, urls, results, scrape_i, outcomes, now >>
    /\ UNCHANGED << fn_title, fn_base, fn_slug, scraped_content_filepath >>
    /\ UNCHANGED cardVars
    /\ UNCHANGED resolverVars
    /\ UNCHANGED sanVars

ExtractInit ==
    /\ pc = "extract"
    /\ err = "none"
    /\ extractors = DefaultExtractors
    /\ lookup_url \in DomainUrls
    /\ resolved = 0
    /\ page \in { MakePage(NoTrafilatura, NoNewspaper, s) : s \in ExtractSoups }
    /\ data = NewData(lookup_url)
    /\ CardIdle
    /\ ScrapeIdle
    /\ SanIdle
    /\ AuxIdle

ExtractNext ==
    \/ ExtractDomain
    \/ SaveExtracted

ExtractSpec == ExtractInit /\ [][ExtractNext]_vars

-----------------------------------------------------------------------------
(* MainSpec: main() of spaced_repetition_card_gen_pipeline.py, from the    *)
(* parsed arguments to the call of the card generator.                     *)

YoutubeNeedle == << "y", "o", "u", "t", "u", "b", "e" >>

YoutubeUrl == << "h", ":", "/", "/" >> \o YoutubeNeedle \o << ".", "c", "o", "m", "/", "w" >>

MainUrls == ScrapeUrls \cup { YoutubeUrl }

MaxTranscriptLen == 3 \* characters of a transcription

\* transcription_data["text"] of a video
Transcripts == UNION { [1..n -> { "t", " ", "." }] : n \in 0..MaxTranscriptLen }

\* CONTENT_DIR = "tmp/scraped_content": the output_dir main gives the scraper
ContentDirPath(path) == << "t", "m", "p", "/" >> \o path

\* os.path.join(output_dir, f"{os.path.splitext(audio_filepath)[0]}.txt")
TranscriptionPath == ContentDirPath(OutputDir \o << "/", "a", ".", "t", "x", "t" >>)

\* a Python bool among the arguments
PyBool(b) == IF b THEN << "True" >> ELSE << "False" >>

\* the positional arguments main gives generate_mochi_cards
MainCallArgs(u, pre_prompt, article_content, enable_thinking) ==
    << u, pre_prompt \o article_content, TECHNICAL_READINGS_DECKS, PyBool(enable_thinking) >>

\* the parameters of generate_mochi_cards bound to positional arguments
BindGenerateMochiCards(args) ==
    [ url |-> args[1], instructions |-> args[2], context |-> args[3],
      deck_id |-> args[4],
      enable_thinking |-> IF Len(args) >= 5 THEN args[5] ELSE PyBool(FALSE) ]

\* result[key] of a dict returned by scrape
HasKey(d, key) == key \in DOMAIN d /\ d[key].kind /= "absent"

\* the branch for a url without "youtube": scraper.scrape(url), the summary,
\* and result["content_path"]
MainScrape ==
    /\ pc = "main"
    /\ ~Contains(urls[1], YoutubeNeedle)
    /\ \E env \in Worlds, elapsed \in { 0, 1 } :
         LET r == Scrape(extractors, urls[1], env, now + elapsed)
         IN  /\ ~r.raised
             /\ results' = << r.data >>
             /\ files' = files \o [ i \in 1..Len(r.writes) |->
                                      [ r.writes[i] EXCEPT !.path = ContentDirPath(@) ] ]
             /\ now' = now + elapsed
             /\ IF HasKey(r.data, "content_path")
                THEN /\ scraped_content_filepath' = r.data["content_path"].val
                     /\ pc' = "load"
                     /\ err' = err
                ELSE /\ scraped_content_filepath' = scraped_content_filepath
                     /\ pc' = "raised"
                     /\ err' = "KeyError"
    /\ UNCHANGED << urls, scrape_i, outcomes >>
    /\ UNCHANGED << fn_title, fn_base, fn_slug, rendered >>
    /\ UNCHANGED cardVars
    /\ UNCHANGED resolverVars
    /\ UNCHANGED genVars
    /\ UNCHANGED sanVars

\* the branch for a url with "youtube": the transcription is written under
\* CONTENT_DIR
MainTranscribe ==
    /\ pc = "main"
    /\ Contains(urls[1], YoutubeNeedle)
    /\ \E text \in Transcripts, elapsed \in { 0, 1 } :
         /\ files' = Append(files, [ path |-> TranscriptionPath, text |-> text,
                                     data |-> << >> ])
         /\ now' = now + elapsed
    /\ scraped_content_filepath' = TranscriptionPath
    /\ pc' = "load"
    /\ UNCHANGED << err, urls, results, scrape_i, outcomes >>
    /\ UNCHANGED << fn_title, fn_base, fn_slug, rendered >>
    /\ UNCHANGED cardVars
    /\ UNCHANGED resolverVars
    /\ UNCHANGED genVars
    /\ UNCHANGED sanVars

\* QwenChatbot("mlx-community/Qwen3-30B-A3B-4bit"): __init__ has a second
\* required parameter, num_cards
MainLoadModel ==
    /\ pc = "load"
    /\ pc' = "raised"
    /\ err' = "TypeError"
    /\ UNCHANGED cardVars
    /\ UNCHANGED resolverVars
    /\ UNCHANGED scraperVars

MainInit ==
    /\ pc = "main"
    /\ err = "none"
    /\ urls \in { << u >> : u \in MainUrls }
    /\ results = << >>
    /\ scrape_i = 1
    /\ outcomes = << >>
    /\ files = << >>
    /\ now = 0
    /\ extractors = DefaultExtractors
    /\ lookup_url = << >>
    /\ resolved = 0
    /\ CardIdle
    /\ GenericIdle
    /\ SanIdle
    /\ AuxIdle

MainNext ==
    \/ MainScrape
    \/ MainTranscribe
    \/ MainLoadModel

MainSpec == MainInit /\ [][MainNext]_vars

-----------------------------------------------------------------------------
(* DirectSpec: a caller that calls scrape(url) several times on one        *)
(* scraper, as example_usage.py does, with no pause of its own.            *)

MaxCalls == 2         \* calls of scrape by the caller

\* two documents of one domain
DirectUrls == { PageUrl, << "h", ":", "/", "/" >> \o Netloc(PageUrl) \o << "/", "q" >> }

\* the worlds in which every step of scrape succeeds
DirectWorlds ==
    { w \in Worlds : ~w.fetch_raises /\ ~w.can_handle_raises /\ ~w.extract_raises }

\* result = scraper.scrape(url)
DirectScrape ==
    /\ pc = "direct"
    /\ scrape_i <= MaxCalls
    /\ \E u \in DirectUrls, env \in DirectWorlds, elapsed \in { 0, 1 } :
         LET r == Scrape(extractors, u, env, now + elapsed)
         IN  /\ ~r.raised
             /\ urls' = Append(urls, u)
             /\ results' = Append(results, r.data)
             /\ outcomes' = Append(outcomes, [ what |-> r.what, at |-> now, slept |-> FALSE ])
             /\ files' = files \o r.writes
             /\ now' = now + elapsed
    /\ scrape_i' = scrape_i + 1
    /\ UNCHANGED << pc, err >>
    /\ UNCHANGED cardVars
    /\ UNCHANGED resolverVars
    /\ UNCHANGED genVars
    /\ UNCHANGED sanVars
    /\ UNCHANGED auxVars

\* the caller is done
DirectReturn ==
    /\ pc = "direct"
    /\ scrape_i > 1
    /\ pc' = "returned"
    /\ UNCHANGED << err, urls, results, scrape_i, outcomes, files, now >>
    /\ UNCHANGED cardVars
    /\ UNCHANGED resolverVars
    /\ UNCHANGED genVars
    /\ UNCHANGED sanVars
    /\ UNCHANGED auxVars

DirectInit ==
    /\ pc = "direct"
    /\ err = "none"
    /\ extractors = DefaultExtractors
    /\ lookup_url = << >>
    /\ resolved = 0
    /\ ScrapeIdle
    /\ CardIdle
    /\ GenericIdle
    /\ SanIdle
    /\ AuxIdle

DirectNext ==
    \/ DirectScrape
    \/ DirectReturn

DirectSpec == DirectInit /\ [][DirectNext]_vars

-----------------------------------------------------------------------------
(* PromptSpec: generate_spaced_rep_card_drafts on short contexts, with     *)
(* instructions of two and of four tokens.                                 *)

MaxPromptLen == 5     \* characters of a context of PromptSpec

\* instructions of four tokens
LongInstructions == << "i", "n", "s", ":" >>

PromptContexts == UNION { [1..n -> TextChars] : n \in 1..MaxPromptLen }

PromptInit ==
    /\ pc = "split"
    /\ err = "none"
    /\ context \in PromptContexts
    /\ max_tokens_of_model = PipelineMaxTokens
    /\ chunks = << >>
    /\ context_batches = << >>
    /\ drafts = << >>
    /\ draft_i = 1
    /\ card_num = 1
    /\ question = Unbound
    /\ answer = Unbound
    /\ posted = << >>
    /\ url = SourceUrl
    /\ deck_id = TECHNICAL_READINGS_DECKS
    /\ instructions \in { Instructions, LongInstructions }
    /\ gen_calls = << >>
    /\ store_fault = NoFault
    /\ entry = "pipeline"
    /\ ResolverIdle
    /\ ScraperIdle

PromptNext ==
    \/ SplitContextIntoBatches
    \/ Generate

PromptSpec == PromptInit /\ [][PromptNext]_vars

-----------------------------------------------------------------------------
(* Vocabulary of the properties.                                           *)

\* the generator outputs whose segments have all been parsed
ParsedDrafts ==
    IF pc = "done" THEN 1..Len(drafts)
    ELSE IF pc \in { "parse", "raised" } THEN 1..(draft_i - 1)
    ELSE {}

\* the requests issued while parsing generator output d, in order
CardsPostedFor(d) == SelectSeq(posted, LAMBDA p : p.draft = d)

\* the indices of the lines of a segment that start with a prefix
LinesWith(card, prefix) ==
    { i \in 1..Len(LinesOf(card)) : StartsWith(LinesOf(card)[i], prefix) }

\* exactly one Front line and exactly one Back line
WellFormedSegment(card) ==
    /\ Cardinality(LinesWith(card, FrontPrefix)) = 1
    /\ Cardinality(LinesWith(card, BackPrefix)) = 1

\* the last line of a segment that starts with a prefix
LastLineWith(card, prefix) ==
    LET hits == LinesWith(card, prefix)
    IN  LinesOf(card)[CHOOSE i \in hits : \A j \in hits : j <= i]

\* the whole text of a line after its leading prefix
Remainder(line, prefix) == Drop(line, Len(prefix) + 1)

IsPrefix(a, b) == Len(a) <= Len(b) /\ SubSeq(b, 1, Len(a)) = a

\* the segment a posted card was emitted for
SegmentOf(p) == CardsOf(drafts[p.draft])[p.card_num]

CeilDiv(a, b) == (a + b - 1) \div b

BatcherReturned == pc = "generate" /\ drafts = << >>

Oversize == CountNumTokens(context) > max_tokens_of_model

-----------------------------------------------------------------------------
(* Card parser.                                                            *)

\* C1: no card is posted for a segment that lacks a Front line or a Back
\* line, so no posted card carries a value set while scanning an earlier
\* segment.
C1_NoCarryOver ==
    \A i \in 1..Len(posted) :
        /\ LinesWith(SegmentOf(posted[i]), FrontPrefix) /= {}
        /\ LinesWith(SegmentOf(posted[i]), BackPrefix) /= {}

\* C2: once an output of N well-formed segments has been parsed, exactly N
\* cards were posted for it, the i-th for segment i, its front (back) taken
\* from the Front (Back) line of segment i: a prefix of the text after the
\* line's prefix, and all of it when that text does not repeat the prefix.
C2_WellFormedCount ==
    \A d \in ParsedDrafts :
        LET cards == CardsOf(drafts[d])
            ps == CardsPostedFor(d)
        IN  (\A k \in 1..Len(cards) : WellFormedSegment(cards[k]))
            => /\ Len(ps) = Len(cards)
               /\ \A k \in 1..Len(ps) :
                     LET front == Remainder(LastLineWith(cards[k], FrontPrefix), FrontPrefix)
                         back == Remainder(LastLineWith(cards[k], BackPrefix), BackPrefix)
                     IN  /\ ps[k].card_num = k
                         /\ IsPrefix(ps[k].question, front)
                         /\ IsPrefix(ps[k].answer, back)
                         /\ Find(front, FrontPrefix) = 0 => ps[k].question = front
                         /\ Find(back, BackPrefix) = 0 => ps[k].answer = back

\* C2 witness: a run that parsed an output of three well-formed segments,
\* the second with other field values than the first, and posted three cards.
C2_Witness ==
    /\ pc = "done"
    /\ \E d \in ParsedDrafts :
          LET cards == CardsOf(drafts[d])
          IN  /\ Len(cards) = 3
              /\ \A k \in 1..3 : WellFormedSegment(cards[k])
              /\ cards[1] /= cards[2]
              /\ Len(CardsPostedFor(d)) = 3

\* C3: an output in which every card, the last included, is followed by the
\* delimiter yields one card per Front/Back pair and none for the empty
\* segment after the final delimiter.
C3_DelimiterTerminated ==
    \A d \in ParsedDrafts :
        LET cards == CardsOf(drafts[d])
            n == Len(cards)
        IN  (/\ n >= 2
             /\ cards[n] = << >>
             /\ \A k \in 1..(n - 1) : WellFormedSegment(cards[k]))
            => Len(CardsPostedFor(d)) = n - 1

\* C4: the front (back) of a posted card is the whole text that follows the
\* prefix on the Front (Back) line of its segment, even when that text
\* contains 'Front: ' or 'Back: ' again.
C4_VerbatimFields ==
    \A i \in 1..Len(posted) :
        LET card == SegmentOf(posted[i])
        IN  /\ LinesWith(card, FrontPrefix) /= {}
               => posted[i].question
                     = Remainder(LastLineWith(card, FrontPrefix), FrontPrefix)
            /\ LinesWith(card, BackPrefix) /= {}
               => posted[i].answer
                     = Remainder(LastLineWith(card, BackPrefix), BackPrefix)

\* C5: a segment lacking a Front or a Back line produces no card and raises
\* no error, and every well-formed segment of the run still gets its card.
C5_MalformedSkipped ==
    /\ err /= "UnboundLocalError"
    /\ \A i \in 1..Len(posted) : WellFormedSegment(SegmentOf(posted[i]))
    /\ pc = "done" =>
          \A d \in 1..Len(drafts) :
             \A k \in 1..Len(CardsOf(drafts[d])) :
                WellFormedSegment(CardsOf(drafts[d])[k])
                => \E i \in 1..Len(posted) :
                      posted[i].draft = d /\ posted[i].card_num = k

-----------------------------------------------------------------------------
(* Context batcher.                                                        *)

\* C6: a text of at most max_tokens_of_model tokens comes back as exactly
\* one batch, the text with leading and trailing whitespace removed.
C6_SingleBatchTrimmed ==
    (BatcherReturned /\ ~Oversize)
    => context_batches = << Strip(context) >>

-----------------------------------------------------------------------------
(* Extractor resolver.                                                     *)

\* C10: _get_extractor returns the extractor at the lowest list index whose
\* can_handle is true for the locator: its predicate holds and no extractor
\* at a smaller index has a true predicate.
C10_FirstMatch ==
    resolved /= 0
    => /\ resolved \in 1..Len(extractors)
       /\ CanHandle(extractors[resolved], lookup_url)
       /\ \A j \in 1..(resolved - 1) : ~CanHandle(extractors[j], lookup_url)

\* C10 witness: a locator that several registered extractors can handle,
\* in a registry grown by add_extractor, resolved to one that is not the
\* fallback at the end of the list.
C10_Witness ==
    /\ resolved /= 0
    /\ Len(extractors) > Len(DefaultExtractors)
    /\ resolved < Len(extractors)
    /\ Cardinality({ j \in 1..Len(extractors) :
                        CanHandle(extractors[j], lookup_url) }) >= 3

\* C11: in the initial registry and after any add_extractor calls the last
\* element of the extractor list is the universal GenericExtractor.
C11_GenericLast ==
    extractors[Len(extractors)] = "GenericExtractor"

\* C12: the resolved extractor is the GenericExtractor exactly when no
\* registered domain-specific extractor can handle the locator, and a locator
\* containing 'uber.com/blog' is resolved to UberBlogExtractor.
C12_FallbackIffNoDomainMatch ==
    resolved /= 0
    => /\ resolved \in 1..Len(extractors)
       /\ (extractors[resolved] = "GenericExtractor")
             <=> ~(\E j \in 1..Len(extractors) :
                      /\ extractors[j] /= "GenericExtractor"
                      /\ CanHandle(extractors[j], lookup_url))
       /\ Contains(Lower(lookup_url), UberNeedle)
             => extractors[resolved] = "UberBlogExtractor"

\* C13: across the three tiers of GenericExtractor.extract, a result field
\* (title, author, date, description, body text, content blocks, images) that
\* a tier has populated is not changed by any later tier.
C13_FillOnlyIfAbsent ==
    [][ \A k \in { "title", "author", "date", "description", "content_raw",
                   "content", "images" } :
          (pc \in { "tier2", "tier3" } /\ Truthy(data[k])) => data'[k] = data[k] ]_vars

-----------------------------------------------------------------------------
(* Scraper.                                                                *)

\* C14: when scrape_multiple returns, there is exactly one result per input
\* url, in input order, every url was processed whatever happened to the
\* urls before it, and a url whose fetch, extractor lookup, extraction or
\* save failed has a result carrying an error field.
C14_OneResultPerUrl ==
    pc = "returned"
    => /\ Len(results) = Len(urls)
       /\ Len(outcomes) = Len(urls)
       /\ \A i \in 1..Len(urls) :
            /\ results[i].url = Str(urls[i])
            /\ outcomes[i].what /= "ok" => Truthy(results[i].error)

C14_Witness ==
    /\ pc = "returned"
    /\ Len(urls) = 2
    /\ outcomes[1].what = "can_handle"
    /\ outcomes[2].what = "ok"
    /\ Truthy(results[1].error)
    /\ ~Truthy(results[2].error)

\* C15: every result with its error field set carries nothing but the
\* locator and the error: title, author, date, content blocks, raw body,
\* images, extractor identifier and every other key are absent.
C15_ErrorExclusive ==
    \A i \in 1..Len(results) :
        Truthy(results[i].error)
        => \A k \in DataKeys \ { "url", "error" } : results[i][k] = Absent

C15_Witness ==
    \E i \in 1..Len(results) :
        /\ outcomes[i].what = "save"
        /\ Truthy(results[i].error)
        /\ results[i].url = Str(urls[i])

-----------------------------------------------------------------------------
(* Card store requests and generator calls.                                *)

\* C16: every request posted by generate_mochi_cards has the content
\* front, newline, ---, newline, back, newline, ---, newline, source locator,
\* newline; it carries the deck id and the locator the call was given, and
\* review-reverse and archived are false.
C16_RequestShape ==
    \A i \in 1..Len(posted) :
        /\ posted[i].content =
              posted[i].question \o << "\n", "-", "-", "-", "\n" >>
              \o posted[i].answer \o << "\n", "-", "-", "-", "\n" >>
              \o url \o << "\n" >>
        /\ posted[i].deck_id = deck_id
        /\ posted[i].review_reverse = FALSE
        /\ posted[i].archived = FALSE

\* C17: when the card store fails or rejects one request, the run still
\* issues exactly one request for every segment of every generator output:
\* none is retried and none of the remaining ones is dropped.
C17_FailureDoesNotAbort ==
    ( /\ pc \in { "done", "raised" }
      /\ err /= "UnboundLocalError"
      /\ \E i \in 1..Len(posted) : posted[i].response /= "ok" )
    => \A d \in 1..Len(drafts) :
         \A c \in 1..Len(CardsOf(drafts[d])) :
            Cardinality({ i \in 1..Len(posted) :
                            posted[i].draft = d /\ posted[i].card_num = c }) = 1

\* C18: the generator is called once per batch, in batch order, with the
\* instructions followed by the text of that batch; the outputs are kept in
\* the same order, and the cards are posted in the order of their batches
\* and of their segments.
C18_GeneratorProtocol ==
    /\ Len(gen_calls) = Len(drafts)
    /\ Len(gen_calls) <= Len(context_batches)
    /\ pc \in { "parse", "done" } => Len(gen_calls) = Len(context_batches)
    /\ \A i \in 1..Len(gen_calls) :
         /\ gen_calls[i].content = instructions \o context_batches[i]
         /\ drafts[i] = gen_calls[i].output
    /\ \A i \in 1..Len(posted) : \A j \in (i + 1)..Len(posted) :
         \/ posted[i].draft < posted[j].draft
         \/ /\ posted[i].draft = posted[j].draft
            /\ posted[i].card_num < posted[j].card_num

C18_Witness ==
    /\ pc = "done"
    /\ Len(context_batches) >= 2
    /\ Len(gen_calls) = Len(context_batches)
    /\ context_batches[1] /= context_batches[2]
    /\ \E i \in 1..Len(posted) : posted[i].draft = 2

\* the characters of a text
Chars(text) == { text[i] : i \in 1..Len(text) }

\* C19: no file written by _save_data has a null character in its text
\* (title, author, date, block texts, raw body, image urls and captions) or
\* in its name, and the name derived from a title is what reserved-character
\* stripping, separator replacement and truncation give on the sanitized
\* title.
C19_SanitizedEverywhere ==
    \A i \in 1..Len(files) :
        /\ NUL \notin Chars(files[i].text)
        /\ NUL \notin Chars(files[i].path)
        /\ Truthy(files[i].data.title)
           => files[i].path =
                 MdPath(Truncate(ReplaceSpaces(ReSubReserved(
                            SanitizeText(files[i].data.title.val))), MaxFilenameLen))

-----------------------------------------------------------------------------
(* Persisted artifacts.                                                    *)

\* C21: the filename base derived from a non-empty title, by _save_data and
\* by _sanitize_filename, has no reserved character, no whitespace character
\* and at most 200 characters.
C21_FilenameFromTitle ==
    /\ pc \in { "derived_base", "derived" }
       => /\ Chars(fn_base) \cap ReservedChars = {}
          /\ Chars(fn_base) \cap Whitespace = {}
          /\ Len(fn_base) <= 200
    /\ pc = "derived"
       => /\ Chars(fn_slug) \cap ReservedChars = {}
          /\ Chars(fn_slug) \cap Whitespace = {}
          /\ Len(fn_slug) <= 200


\* C22: each content block is written by the rule of its kind: a heading of
\* level N as N '#' and its text, a paragraph as its text and a blank line, a
\* quote behind '> ', code inside a fence, and a list item behind '1.' or
\* '-', never as an unprefixed paragraph.
C22_RenderingRules ==
    pc = "saved" =>
        /\ Len(rendered) = Len(data.content.val)
        /\ \A i \in 1..Len(rendered) :
             LET block == data.content.val[i]
                 fence == << Backtick, Backtick, Backtick >>
             IN  /\ block.type \in { "h1", "h2", "h3", "h4", "h5", "h6" }
                    => rendered[i] = Rep("#", HeadingLevel(block.type)) \o << " " >>
                                       \o block.text \o << "\n", "\n" >>
                 /\ block.type = "p" => rendered[i] = block.text \o << "\n", "\n" >>
                 /\ block.type = "blockquote"
                    => rendered[i] = << ">", " " >> \o block.text \o << "\n", "\n" >>
                 /\ block.type = "pre"
                    => rendered[i] = fence \o << "\n" >> \o block.text
                                       \o << "\n" >> \o fence \o << "\n", "\n" >>
                 /\ block.type = "li"
                    => \/ StartsWith(rendered[i], << "-", " " >> \o block.text)
                       \/ StartsWith(rendered[i], << "1", ".", " " >> \o block.text)


\* the extractor that handled the document of ExtractSpec
Handler == IF resolved = 0 THEN "none" ELSE extractors[resolved]

\* the blocks and images JaneStreetBlogExtractor collects from one <article>
FromArticle(d, article) ==
    /\ d.content = List(DomainBlocks(article.elems, JaneStreetTags))
    /\ d.images = List(DomainImages(article.imgs, FALSE))

\* C27: JaneStreetBlogExtractor takes the first <article> that holds a
\* div.post-header and collects blocks and images from it alone; when no
\* <article> holds one it takes the first <article>, and the result has no
\* error field.
C27_MainArticle ==
    (pc \in { "extracted", "saved" } /\ Handler = "JaneStreetBlogExtractor") =>
        LET all_articles == page.soup.all_articles
            n == Len(all_articles)
        IN  /\ \A i \in 1..n :
                 (all_articles[i].post_header
                  /\ \A j \in 1..(i - 1) : ~all_articles[j].post_header)
                 => FromArticle(data, all_articles[i])
            /\ (n > 0 /\ \A i \in 1..n : ~all_articles[i].post_header)
               => FromArticle(data, all_articles[1]) /\ data.error = Absent

\* three candidates, the second the first marked one: its paragraph is the
\* one collected
C27_Witness ==
    /\ pc = "extracted"
    /\ Handler = "JaneStreetBlogExtractor"
    /\ Len(page.soup.all_articles) = 3
    /\ ~page.soup.all_articles[1].post_header
    /\ page.soup.all_articles[2].post_header
    /\ page.soup.all_articles[3].post_header
    /\ Len(data.content.val) = 1
    /\ data.content.val[1].text = page.soup.all_articles[2].elems[1].text
    /\ data.content.val[1].text /= page.soup.all_articles[1].elems[1].text
    /\ data.content.val[1].text /= page.soup.all_articles[3].elems[1].text

\* the tags the handling extractor collects
HandlerTags == IF Handler = "UberBlogExtractor" THEN UberTags ELSE JaneStreetTags

\* the positions of the container's elements that are collected
KeptPositions ==
    LET elems == page.soup.article.elems
    IN  { i \in 1..Len(elems) :
            elems[i].type \in HandlerTags /\ Len(Strip(elems[i].text)) >= 10 }

\* C28: the blocks of a domain extractor are exactly the matching elements
\* whose stripped text has at least 10 characters, in document order: the
\* k-th block is the k-th such element.
C28_OrderPreservingFilter ==
    (pc \in { "extracted", "saved" } /\ Len(page.soup.all_articles) = 1) =>
        LET elems == page.soup.article.elems
            blocks == data.content.val
        IN  /\ Len(blocks) = Cardinality(KeptPositions)
            /\ \A k \in 1..Len(blocks) :
                 \E i \in KeptPositions :
                    /\ Cardinality({ j \in KeptPositions : j <= i }) = k
                    /\ blocks[k] = [ type |-> elems[i].type, text |-> Strip(elems[i].text) ]

\* a list item of 10 characters kept ahead of a heading, a paragraph of 9
\* dropped between them
C28_Witness ==
    /\ pc = "extracted"
    /\ Len(page.soup.all_articles) = 1
    /\ Len(page.soup.article.elems) = 3
    /\ page.soup.article.elems[2].type = "p"
    /\ Len(Strip(page.soup.article.elems[2].text)) = 9
    /\ Len(data.content.val) = 2
    /\ data.content.val[1].type = "li"
    /\ Len(data.content.val[1].text) = 10
    /\ data.content.val[2].type = "h2"


\* C23: in main each argument of generate_mochi_cards gets the value of its
\* role: the context is the persisted text, the instructions are the
\* instructions alone, the url is the input url and the deck is the
\* configured deck.
C23_ArgumentRoles ==
    (pc \in { "load", "raised" } /\ files /= << >>) =>
        \A enable_thinking \in BOOLEAN :
            LET article_content == files[Len(files)].text
                call == BindGenerateMochiCards(
                            MainCallArgs(urls[1], Instructions, article_content, enable_thinking))
            IN  /\ call.context = article_content
                /\ call.instructions = Instructions
                /\ call.url = urls[1]
                /\ call.deck_id = TECHNICAL_READINGS_DECKS


\* C24: any two untitled results saved by _save_data get different filename
\* bases, also two of the same domain in the same run.
C24_UntitledDistinct ==
    \A i, j \in 1..Len(files) :
        (i < j /\ ~Truthy(files[i].data.title) /\ ~Truthy(files[j].data.title))
        => files[i].path /= files[j].path


\* C25: when tier 1 left the title, author or date unset and tier 2 has a
\* value for it, the title, author or date of the result (the fields the
\* normalizer reads) holds that value after tier 2.
C25_TierTwoFillsGaps ==
    (pc = "tier3" /\ page.HAS_NEWSPAPER /\ ~page.article.raises) =>
        LET tier1 == Trafilatura(NewData(PageUrl), page)
            article == page.article
        IN  /\ (~Truthy(tier1.title) /\ article.title /= << >>)
               => data.title = Str(article.title)
            /\ (~Truthy(tier1.author) /\ article.authors /= << >>)
               => Truthy(data.author)
            /\ (~Truthy(tier1.date) /\ article.publish_date /= << >>)
               => Truthy(data.date)


\* C26: in scrape_multiple the delay of SleepSeconds elapses between the
\* fetch of a document and the fetch of the next one, whatever became of the
\* first: success, fetch error, extraction error or an exception out of
\* scrape.
C26_DelayBetweenFetches ==
    \A i \in 1..(Len(outcomes) - 1) :
        /\ outcomes[i].slept
        /\ outcomes[i + 1].at - outcomes[i].at >= SleepSeconds


\* C30: for every max_tokens_of_model >= 1 and every text of more tokens,
\* _split_context_into_batches ends without an error and returns at least
\* one batch, each batch holding at least one token.
C30_BatcherTerminates ==
    (pc /= "split" /\ Oversize)
    => /\ pc = "generate"
       /\ err = "none"
       /\ Len(context_batches) >= 1
       /\ \A k \in 1..Len(context_batches) : CountNumTokens(context_batches[k]) >= 1


\* C29: every prompt sent to the generator, the instructions followed by one
\* batch, has at most max_tokens_of_model tokens, with one batch and with
\* several.
C29_PromptWithinCapacity ==
    \A i \in 1..Len(gen_calls) :
        CountNumTokens(gen_calls[i].content) <= max_tokens_of_model

====
